---- MODULE Spec2Model ----
(***************************************************************************)
(* Model of the scotus-predictor website: the docket merger of             *)
(* lib/cases.js (getFullDocket) and the listing page of app/page.jsx       *)
(* (sortCases, HomePage).                                                  *)
(*                                                                         *)
(* JavaScript strings are sequences of one-character strings, so that      *)
(* String.prototype.includes is a real substring test.  A JavaScript       *)
(* object used as a date map (timeline) is a set of <<field, date>> pairs, *)
(* {} being the empty object.  An optional value (the result of            *)
(* Array.prototype.find) is <<>> for undefined and <<v>> for v.            *)
(***************************************************************************)
EXTENDS Integers, Sequences, FiniteSets, TLC

VARIABLES
    index,          \* index.json: the sequence index.cases of predicted records
    docket,         \* docket_status.json: docket.cases in Object.entries order
    data,           \* HomePage: the value returned by getFullDocket
    pendingCases,   \* HomePage: the list rendered under "Pending Cases"
    decidedCases,   \* HomePage: the list rendered under "Decided Cases"
    sortIn,         \* the argument of a direct sortCases call
    sortOut,        \* the value returned by that call
    pc,             \* which operation has run
    sectionCases,   \* DocketSection: the prop cases
    searchQuery,    \* DocketSection: useState("")
    collapsedGroups,\* DocketSection: useState({}), a set of <<status, flag>> pairs
    expandedCardId, \* DocketSection: useState(null), <<>> for null and <<id>> for id
    SINGLE_CASE_NAMES, \* lib/constants: the array shared by all callers
    italicText,     \* italicizeCaseNames: the argument text
    italicParts,    \* italicizeCaseNames: the returned segments
    caseFiles,      \* data/cases: the record of each <id>.json, a function of the ids
    caseId,         \* the route parameter of the last request, <<>> before it
    caseData,       \* CaseDetailPage: the record handed to CaseDetailClient
    predictedOutcome, \* CaseDetailClient: the rendered outcome line
    activeTab,      \* CaseDetailClient: useState("scenarios")
    expandedScenario \* CaseDetailClient: useState(null), <<>> for null and <<id>> for id

pageVars == <<index, docket, data, pendingCases, decidedCases, sortIn, sortOut>>

sectionVars == <<sectionCases, searchQuery, collapsedGroups, expandedCardId>>

italicVars == <<SINGLE_CASE_NAMES, italicText, italicParts>>

detailVars == <<caseFiles, caseId, caseData, predictedOutcome, activeTab, expandedScenario>>

vars == <<pageVars, pc, sectionVars, italicVars, detailVars>>

----------------------------------------------------------------------------
(* Bounds *)

MaxIndex == 2       \* most predicted records in index.json
MaxDocket == 2      \* most entries in docket_status.json
MaxSort == 3        \* longest list handed to sortCases directly
MaxCases == 2       \* longest list handed to DocketSection
MaxFragments == 3   \* most pieces a formatted text is made of
MaxScenarios == 3   \* the scenarios of a case record
MaxVotes == 9       \* most votes in a case record

----------------------------------------------------------------------------
(* Strings of the data files *)

K_24_1287 == <<"2","4","-","1","2","8","7">>
K_25_250 == <<"2","5","-","2","5","0">>
K_30_0001 == <<"3","0","-","0","0","0","1">>

\* docket strings of predicted records; the consolidated one is the docket of
\* learning-resources-v-trump, "Nos. 24-1287 & 25-250"
D_24_1287 == K_24_1287
D_Consolidated == <<"N","o","s","."," ">> \o K_24_1287 \o <<" ","&"," ">> \o K_25_250
D_25_9999 == <<"2","5","-","9","9","9","9">>
D_30_0001 == <<"N","o","."," ">> \o K_30_0001

Id_A == <<"a">>
Id_B == <<"b">>

DocketKeys == {K_24_1287, K_25_250, K_30_0001}
DocketStrings == {D_24_1287, D_Consolidated, D_25_9999, D_30_0001}
\* ids are free-form strings: two slugs and one id that reads like a docket number
CaseIds == {Id_A, Id_B, K_30_0001}

\* the status the index records for a case: one case is decided, the others
\* are awaiting their decision
IndexStatus(id) == IF id = Id_B THEN "Decided" ELSE "Awaiting Decision"

Space == " "

\* the name the index gives a predicted case, and the raw (untrimmed) name the
\* docket feed gives a docket number
CaseName(id) == <<"C">> \o id
RawName(key) == <<Space, "N">> \o key \o <<Space>>

\* the dates the docket feed records for an entry
TimelineOf(key, argued, decided) ==
    {<<"granted", <<"g">> \o key>>}
        \cup (IF argued THEN {<<"argued", <<"a">> \o key>>} ELSE {})
        \cup (IF decided THEN {<<"decided", <<"d">> \o key>>} ELSE {})

----------------------------------------------------------------------------
(* Input files *)

\* a record of index.cases
PredictedRecords ==
    {[id |-> i, name |-> CaseName(i), docket |-> d, status |-> IndexStatus(i)] :
        i \in CaseIds, d \in DocketStrings}

\* a value of docket.cases, together with its key
DocketEntries ==
    {[key |-> k, name |-> RawName(k), docket |-> k, decided |-> dec, argued |-> arg,
      timeline |-> TimelineOf(k, arg, dec)] :
        k \in DocketKeys, dec \in BOOLEAN, arg \in BOOLEAN}

SeqsUpTo(S, n) == UNION {[1..m -> S] : m \in 0..n}

\* Case Record identifiers are unique (spec 3, data model)
Indexes ==
    {s \in SeqsUpTo(PredictedRecords, MaxIndex) :
        \A i, j \in 1..Len(s) : s[i].id = s[j].id => i = j}

\* the keys of a JSON object are distinct
Dockets ==
    {s \in SeqsUpTo(DocketEntries, MaxDocket) :
        \A i, j \in 1..Len(s) : s[i].key = s[j].key => i = j}

----------------------------------------------------------------------------
(* JavaScript library functions *)

\* String.prototype.includes
includes(s, sub) ==
    \E i \in 0..(Len(s) - Len(sub)) : SubSeq(s, i + 1, i + Len(sub)) = sub

IsSpace(c) == c = Space

\* String.prototype.trim
RECURSIVE trimStart(_)
trimStart(s) ==
    IF s # <<>> /\ IsSpace(Head(s)) THEN trimStart(Tail(s)) ELSE s

RECURSIVE trimEnd(_)
trimEnd(s) ==
    IF s # <<>> /\ IsSpace(s[Len(s)]) THEN trimEnd(SubSeq(s, 1, Len(s) - 1)) ELSE s

trim(s) == trimEnd(trimStart(s))

\* String.prototype.toLowerCase on the letters of the basic Latin alphabet
UpperCaseLetters ==
    <<"A","B","C","D","E","F","G","H","I","J","K","L","M",
      "N","O","P","Q","R","S","T","U","V","W","X","Y","Z">>
LowerCaseLetters ==
    <<"a","b","c","d","e","f","g","h","i","j","k","l","m",
      "n","o","p","q","r","s","t","u","v","w","x","y","z">>

IsUpper(c) == \E i \in DOMAIN UpperCaseLetters : UpperCaseLetters[i] = c
IsLower(c) == \E i \in DOMAIN LowerCaseLetters : LowerCaseLetters[i] = c

LowerChar(c) ==
    IF IsUpper(c)
    THEN LowerCaseLetters[CHOOSE i \in DOMAIN UpperCaseLetters : UpperCaseLetters[i] = c]
    ELSE c

toLowerCase(s) == [i \in DOMAIN s |-> LowerChar(s[i])]

\* (mutant) the last matching case instead of the first
RECURSIVE find_Last(_, _)
find_Last(cases, docketNum) ==
    IF cases = <<>> THEN <<>>
    ELSE IF includes(cases[Len(cases)].docket, docketNum) THEN <<cases[Len(cases)]>>
    ELSE find_Last(SubSeq(cases, 1, Len(cases) - 1), docketNum)

\* Array.prototype.find with the predicate of getFullDocket:
\* the first case whose docket string includes docketNum, or undefined
RECURSIVE find(_, _)
find(cases, docketNum) ==
    IF cases = <<>> THEN <<>>
    ELSE IF includes(Head(cases).docket, docketNum) THEN <<Head(cases)>>
    ELSE find(Tail(cases), docketNum)

----------------------------------------------------------------------------
(* lib/cases.js: getFullDocket *)

Term == "October Term 2025"
LastUpdated == "2026-02-12"

\* (mutant) a merged case takes the status "Decided" from a decided date
Detailed_StatusFromTimeline(c, timeline) ==
    [id |-> c.id, name |-> c.name, docket |-> c.docket,
     status |-> IF \E t \in timeline : t[1] = "decided" THEN "Decided" ELSE c.status,
     hasPrediction |-> TRUE, timeline |-> timeline]

\* { ...predicted, hasPrediction: true, timeline }
Detailed(c, timeline) ==
    [id |-> c.id, name |-> c.name, docket |-> c.docket, status |-> c.status,
     hasPrediction |-> TRUE, timeline |-> timeline]

\* (mutant) the argued flag tested before the decided flag
LightweightStatus_ArguedFirst(entry) ==
    IF entry.argued THEN "Argued"
    ELSE IF entry.decided THEN "Decided"
    ELSE "Granted"

\* (mutant) an entry with neither flag falls back to "Argued"
LightweightStatus_DefaultArgued(entry) ==
    IF entry.decided THEN "Decided" ELSE "Argued"

LightweightStatus(entry) ==
    IF entry.decided THEN "Decided"
    ELSE IF entry.argued THEN "Argued"
    ELSE "Granted"

\* the lightweight entry of a docket number without prediction; the timeline
\* of a docket entry is an object, so entry.timeline || {} is entry.timeline
Lightweight(docketNum, entry) ==
    [id |-> docketNum, name |-> trim(entry.name),
     docket |-> <<"N","o",".",Space>> \o entry.docket,
     status |-> LightweightStatus(entry),
     hasPrediction |-> FALSE, timeline |-> entry.timeline]

\* one iteration of the loop over Object.entries(docket.cases); acc holds
\* matchedDocketNumbers and allCases
\* (mutant) no check of matchedDocketNumbers before the push
MergeEntry_NoDedupe(predictedCases, e, acc) ==
    LET predicted == find(predictedCases, e.key) IN
    IF predicted # <<>>
    THEN [matchedDocketNumbers |-> acc.matchedDocketNumbers \cup {predicted[1].id},
          allCases |-> Append(acc.allCases, Detailed(predicted[1], e.timeline))]
    ELSE [matchedDocketNumbers |-> acc.matchedDocketNumbers,
          allCases |-> Append(acc.allCases, Lightweight(e.key, e))]

MergeEntry(predictedCases, e, acc) ==
    LET predicted == find(predictedCases, e.key) IN
    IF predicted # <<>>
    THEN IF predicted[1].id \notin acc.matchedDocketNumbers
         THEN [matchedDocketNumbers |-> acc.matchedDocketNumbers \cup {predicted[1].id},
               allCases |-> Append(acc.allCases, Detailed(predicted[1], e.timeline))]
         ELSE acc
    ELSE [matchedDocketNumbers |-> acc.matchedDocketNumbers,
          allCases |-> Append(acc.allCases, Lightweight(e.key, e))]

RECURSIVE MergeLoop(_, _, _)
MergeLoop(predictedCases, entries, acc) ==
    IF entries = <<>> THEN acc
    ELSE MergeLoop(predictedCases, Tail(entries),
                   MergeEntry(predictedCases, Head(entries), acc))

\* (mutant) the safety net appends every predicted case, matched or not
RECURSIVE SafetyNet_AppendAll(_, _, _)
SafetyNet_AppendAll(cases, matched, allCases) ==
    IF cases = <<>> THEN allCases
    ELSE SafetyNet_AppendAll(Tail(cases), matched,
                             Append(allCases, Detailed(Head(cases), {})))

\* (mutant) no safety net
SafetyNet_Skip(cases, matched, allCases) == allCases

\* the safety-net loop over predictedCases
RECURSIVE SafetyNet(_, _, _)
SafetyNet(cases, matched, allCases) ==
    IF cases = <<>> THEN allCases
    ELSE SafetyNet(Tail(cases), matched,
                   IF Head(cases).id \notin matched
                   THEN Append(allCases, Detailed(Head(cases), {}))
                   ELSE allCases)

getFullDocket(idx, dkt) ==
    LET predictedCases == idx
        merged == MergeLoop(predictedCases, dkt,
                            [matchedDocketNumbers |-> {}, allCases |-> <<>>])
        allCases == SafetyNet(predictedCases, merged.matchedDocketNumbers,
                              merged.allCases)
    IN [term |-> Term, lastUpdated |-> LastUpdated, allCases |-> allCases,
        predictedCount |-> Len(predictedCases), totalCount |-> Len(allCases)]

----------------------------------------------------------------------------
(* app/page.jsx: sortCases and HomePage *)

\* (mutant) stageOrder[status] || 99: the rank 0 of "Argued" is falsy
StageRank_OrDefault(status) ==
    CASE status = "Granted" -> 1
      [] status = "Decided" -> 2
      [] OTHER -> 99

\* stageOrder[status] ?? 99
StageRank(status) ==
    CASE status = "Argued" -> 0
      [] status = "Granted" -> 1
      [] status = "Decided" -> 2
      [] OTHER -> 99

\* (mutant) the comparator without its first two lines
Compare_NoPredictedFirst(a, b) ==
    IF ~a.hasPrediction /\ ~b.hasPrediction
       /\ StageRank(a.status) # StageRank(b.status)
    THEN StageRank(a.status) - StageRank(b.status)
    ELSE 0

\* the comparator handed to Array.prototype.sort
Compare(a, b) ==
    IF a.hasPrediction /\ ~b.hasPrediction THEN -1
    ELSE IF ~a.hasPrediction /\ b.hasPrediction THEN 1
    ELSE IF ~a.hasPrediction /\ ~b.hasPrediction
            /\ StageRank(a.status) # StageRank(b.status)
         THEN StageRank(a.status) - StageRank(b.status)
    ELSE 0

\* Array.prototype.sort is a stable sort (ECMAScript 2019): an insertion sort
\* that moves an element left only past elements that compare greater
\* an unstable sort: an element also moves left past elements that compare equal
RECURSIVE InsertSorted_Unstable(_, _)
InsertSorted_Unstable(s, x) ==
    IF s # <<>> /\ Compare(s[Len(s)], x) >= 0
    THEN Append(InsertSorted_Unstable(SubSeq(s, 1, Len(s) - 1), x), s[Len(s)])
    ELSE Append(s, x)

RECURSIVE InsertSorted(_, _)
InsertSorted(s, x) ==
    IF s # <<>> /\ Compare(s[Len(s)], x) > 0
    THEN Append(InsertSorted(SubSeq(s, 1, Len(s) - 1), x), s[Len(s)])
    ELSE Append(s, x)

RECURSIVE SortFrom(_, _)
SortFrom(sorted, rest) ==
    IF rest = <<>> THEN sorted
    ELSE SortFrom(InsertSorted(sorted, Head(rest)), Tail(rest))

\* (mutant) the first entry of the list is left out
sortCases_SkipFirst(cases) ==
    IF cases = <<>> THEN <<>> ELSE SortFrom(<<>>, Tail(cases))

sortCases(cases) == SortFrom(<<>>, cases)

\* the predicates handed to Array.prototype.filter, which is SelectSeq: the
\* kept elements in their order
NotDecided(c) == c.status # "Decided"
IsDecided(c) == c.status = "Decided"

----------------------------------------------------------------------------
(* The site: the data files are fixed, pages are rendered from them *)

\* no DocketSection is mounted
NoSection ==
    /\ sectionCases = <<>>
    /\ searchQuery = <<>>
    /\ collapsedGroups = {}
    /\ expandedCardId = <<>>

\* no text is formatted
NoItalic ==
    /\ SINGLE_CASE_NAMES = <<>>
    /\ italicText = <<>>
    /\ italicParts = <<>>

\* the value of activeTab while no CaseDetailClient is mounted
NoTab == ""

\* no detail page is requested
NoDetail ==
    /\ caseFiles = <<>>
    /\ caseId = <<>>
    /\ caseData = <<>>
    /\ predictedOutcome = <<>>
    /\ activeTab = NoTab
    /\ expandedScenario = <<>>

NoData ==
    [term |-> "", lastUpdated |-> "", allCases |-> <<>>,
     predictedCount |-> 0, totalCount |-> 0]

Init ==
    /\ docket \in Dockets
    /\ index \in Indexes
    /\ data = NoData
    /\ pendingCases = <<>>
    /\ decidedCases = <<>>
    /\ sortIn = <<>>
    /\ sortOut = <<>>
    /\ pc = "start"
    /\ NoSection
    /\ NoItalic
    /\ NoDetail

\* a render of the listing page, the one caller of getFullDocket
HomePage ==
    /\ pc = "start"
    /\ LET d == getFullDocket(index, docket) IN
        /\ data' = d
        /\ pendingCases' = sortCases(SelectSeq(d.allCases, NotDecided))
        /\ decidedCases' = sortCases(SelectSeq(d.allCases, IsDecided))
    /\ pc' = "home"
    /\ UNCHANGED <<index, docket, sortIn, sortOut, sectionVars, italicVars, detailVars>>

Next == HomePage

Spec == Init /\ [][Next]_vars

----------------------------------------------------------------------------
(* sortCases on its own: every list of entries it may be handed *)

SortStatuses == {"Argued", "Granted", "Decided", "Awaiting Decision"}
SortDates == {<<"2","0","2","5">>, <<"2","0","2","6">>}

SortEntries ==
    {[name |-> <<"N">>, docket |-> <<"N","o",".">>, status |-> s,
      hasPrediction |-> h, timeline |-> {<<"granted", d>>}] :
        s \in SortStatuses, h \in BOOLEAN, d \in SortDates}

\* the entry at position i of the list carries the i-th id
WithId(e, i) ==
    [id |-> <<"c", ToString(i)>>, name |-> e.name, docket |-> e.docket,
     status |-> e.status, hasPrediction |-> e.hasPrediction, timeline |-> e.timeline]

SortInputs ==
    {[i \in 1..Len(s) |-> WithId(s[i], i)] : s \in SeqsUpTo(SortEntries, MaxSort)}

SortInit ==
    /\ index = <<>>
    /\ docket = <<>>
    /\ data = NoData
    /\ pendingCases = <<>>
    /\ decidedCases = <<>>
    /\ sortIn \in SortInputs
    /\ sortOut = <<>>
    /\ pc = "start"
    /\ NoSection
    /\ NoItalic
    /\ NoDetail

SortCases ==
    /\ pc = "start"
    /\ sortOut' = sortCases(sortIn)
    /\ pc' = "sorted"
    /\ UNCHANGED <<index, docket, data, pendingCases, decidedCases, sortIn,
                   sectionVars, italicVars, detailVars>>

SortNext == SortCases

SpecSort == SortInit /\ [][SortNext]_vars

----------------------------------------------------------------------------
(* components/DocketSection: search, sub-groups by status, expanded row *)

GROUP_ORDER == <<"Argued", "Granted", "Decided">>

\* the names and docket strings of the cases handed to the section
SectionTexts ==
    {[name |-> <<"A","b">>, docket |-> <<"1">>],
     [name |-> <<"C">>, docket |-> <<"2","b">>]}

\* a predicted case, here a decided one, or a lightweight one of any status
SectionEntries ==
    {[name |-> t.name, docket |-> t.docket, status |-> k.status,
      hasPrediction |-> k.hasPrediction, timeline |-> {}] :
        t \in SectionTexts,
        k \in ([status : {"Decided"}, hasPrediction : {TRUE}]
               \cup [status : SortStatuses, hasPrediction : {FALSE}])}

SectionInputs ==
    {[i \in 1..Len(s) |-> WithId(s[i], i)] : s \in SeqsUpTo(SectionEntries, MaxCases)}

\* what the user types into the search bar
SectionQueries ==
    {<<>>, <<" ">>, <<"a","B">>, <<"2">>, <<"b"," ">>}

SectionInit ==
    /\ index = <<>>
    /\ docket = <<>>
    /\ data = NoData
    /\ pendingCases = <<>>
    /\ decidedCases = <<>>
    /\ sortIn = <<>>
    /\ sortOut = <<>>
    /\ pc = "section"
    /\ sectionCases \in SectionInputs
    /\ searchQuery = <<>>
    /\ collapsedGroups = {}
    /\ expandedCardId = <<>>
    /\ NoItalic
    /\ NoDetail

\* (mutant) the query is compared as typed, the names in lower case
filteredCases_QueryAsTyped ==
    IF trim(searchQuery) = <<>> THEN sectionCases
    ELSE SelectSeq(sectionCases,
                   LAMBDA c : \/ includes(toLowerCase(c.name), searchQuery)
                              \/ includes(toLowerCase(c.docket), searchQuery))

filteredCases ==
    IF trim(searchQuery) = <<>> THEN sectionCases
    ELSE LET q == toLowerCase(searchQuery) IN
         SelectSeq(sectionCases,
                   LAMBDA c : \/ includes(toLowerCase(c.name), q)
                              \/ includes(toLowerCase(c.docket), q))

predictedCases == SelectSeq(filteredCases, LAMBDA c : c.hasPrediction)
unpredictedCases == SelectSeq(filteredCases, LAMBDA c : ~c.hasPrediction)

\* grouped[status] after the loop over unpredictedCases; <<>> for undefined
grouped(status) == SelectSeq(unpredictedCases, LAMBDA c : c.status = status)

\* (mutant) the sub-groups in the order in which their statuses first occur
RECURSIVE FirstSeen(_, _)
FirstSeen(cs, seen) ==
    IF cs = <<>> THEN <<>>
    ELSE IF Head(cs).status \in seen
            \/ \A i \in DOMAIN GROUP_ORDER : GROUP_ORDER[i] # Head(cs).status
         THEN FirstSeen(Tail(cs), seen)
    ELSE <<[status |-> Head(cs).status, cases |-> grouped(Head(cs).status)]>>
         \o FirstSeen(Tail(cs), seen \cup {Head(cs).status})

groups_InputOrder == FirstSeen(unpredictedCases, {})

groups ==
    LET all == [i \in DOMAIN GROUP_ORDER |->
                    [status |-> GROUP_ORDER[i], cases |-> grouped(GROUP_ORDER[i])]]
    IN  SelectSeq(all, LAMBDA g : Len(g.cases) > 0)

showSubGroups == Len(groups) > 1

\* collapsedGroups[status] read as a condition: undefined is falsy
Collapsed(cg, status) == <<status, TRUE>> \in cg

\* the search bar's onChange
setSearchQuery(q) ==
    /\ pc = "section"
    /\ searchQuery' = q
    /\ UNCHANGED <<pageVars, pc, italicVars, detailVars,
                   sectionCases, collapsedGroups, expandedCardId>>

\* (mutant) the new object holds the toggled status only
ToggledGroups_DropOthers(prev, status) == {<<status, ~Collapsed(prev, status)>>}

\* the updater handed to setCollapsedGroups:
\* (prev) => ({ ...prev, [status]: !prev[status] })
ToggledGroups(prev, status) ==
    {e \in prev : e[1] # status} \cup {<<status, ~Collapsed(prev, status)>>}

\* a click on the header of a sub-group, rendered when showSubGroups
toggleGroup(status) ==
    /\ pc = "section"
    /\ showSubGroups
    /\ \E i \in DOMAIN groups : groups[i].status = status
    /\ collapsedGroups' = ToggledGroups(collapsedGroups, status)
    /\ UNCHANGED <<pageVars, pc, italicVars, detailVars,
                   sectionCases, searchQuery, expandedCardId>>

\* resultCount handed to the search bar: <<>> for null, <<n>> for the number n
resultCount == IF searchQuery # <<>> THEN <<Len(filteredCases)>> ELSE <<>>

\* the "No cases match" message is rendered
noResults == Len(filteredCases) = 0 /\ searchQuery # <<>>

\* the compact rows that are rendered: those of the sub-groups not collapsed
RenderedRows ==
    UNION {{groups[i].cases[j] : j \in DOMAIN groups[i].cases} :
            i \in {k \in DOMAIN groups : ~Collapsed(collapsedGroups, groups[k].status)}}

\* the prop isExpanded of a rendered row
isExpanded(c) == expandedCardId = <<c.id>>

\* (mutant) a click collapses whatever row is expanded and expands a row only
\* when none is
toggleCard_CollapseFirst(id) ==
    /\ pc = "section"
    /\ \E c \in RenderedRows : c.id = id
    /\ expandedCardId' = IF expandedCardId # <<>> THEN <<>> ELSE <<id>>
    /\ UNCHANGED <<pageVars, pc, italicVars, detailVars,
                   sectionCases, searchQuery, collapsedGroups>>

\* a click on a compact row, rendered when its sub-group is not collapsed
toggleCard(id) ==
    /\ pc = "section"
    /\ \E i \in DOMAIN groups :
        /\ ~Collapsed(collapsedGroups, groups[i].status)
        /\ \E j \in DOMAIN groups[i].cases : groups[i].cases[j].id = id
    /\ expandedCardId' = IF expandedCardId = <<id>> THEN <<>> ELSE <<id>>
    /\ UNCHANGED <<pageVars, pc, italicVars, detailVars,
                   sectionCases, searchQuery, collapsedGroups>>

SectionNext ==
    \/ \E q \in SectionQueries : setSearchQuery(q)
    \/ \E i \in DOMAIN GROUP_ORDER : toggleGroup(GROUP_ORDER[i])
    \/ \E i \in DOMAIN sectionCases : toggleCard(sectionCases[i].id)

SpecSection == SectionInit /\ [][SectionNext]_vars

----------------------------------------------------------------------------
(* lib/formatters.js: italicizeCaseNames, over lib/constants SINGLE_CASE_NAMES *)

N_SeilaLaw == <<"S","e","i","l","a"," ","L","a","w">>
N_CurtissWright == <<"C","u","r","t","i","s","s","-","W","r","i","g","h","t">>
N_BrownWilliamson == <<"B","r","o","w","n"," ","&"," ","W","i","l","l","i","a","m","s","o","n">>
N_Chevron == <<"C","h","e","v","r","o","n">>
N_Brown == <<"B","r","o","w","n">>

\* SINGLE_CASE_NAMES as the module is loaded: names of the list in the order
\* of the source, and the same with the one-word name "Brown" added in front
LoadedNames == <<N_SeilaLaw, N_CurtissWright, N_BrownWilliamson, N_Chevron>>

NameLists == {LoadedNames, <<N_Brown>> \o LoadedNames}

\* the pieces the formatted texts are made of
Fragments ==
    {N_Brown, <<" ","&"," ","W","i","l","l","i","a","m","s","o","n">>, <<" ","T","o","b","a","c","c","o">>, <<" ","v","."," ">>, N_Chevron, <<"I","n"," ">>, <<" ","(","1",")">>}

RECURSIVE Flatten(_)
Flatten(ss) == IF ss = <<>> THEN <<>> ELSE Head(ss) \o Flatten(Tail(ss))

ItalicTexts == {Flatten(fs) : fs \in SeqsUpTo(Fragments, MaxFragments)}

\* the character classes [a-zA-Z'.\-] and [a-zA-Z'.\-&,] of vCasePattern
IsWordChar(c) == IsUpper(c) \/ IsLower(c) \/ c \in {"'", ".", "-"}
IsTailChar(c) == IsWordChar(c) \/ c \in {"&", ","}

\* the position after the longest run of the class that starts at position i
RECURSIVE SpaceRunEnd(_, _)
SpaceRunEnd(text, i) ==
    IF i <= Len(text) /\ IsSpace(text[i]) THEN SpaceRunEnd(text, i + 1) ELSE i

RECURSIVE WordRunEnd(_, _)
WordRunEnd(text, i) ==
    IF i <= Len(text) /\ IsWordChar(text[i]) THEN WordRunEnd(text, i + 1) ELSE i

RECURSIVE TailRunEnd(_, _)
TailRunEnd(text, i) ==
    IF i <= Len(text) /\ IsTailChar(text[i]) THEN TailRunEnd(text, i + 1) ELSE i

\* (?:\s+[A-Za-z'.\-]+)* from position j: the positions at which the group
\* can stop, j included
RECURSIVE HeadEnds(_, _)
HeadEnds(text, j) ==
    LET s == SpaceRunEnd(text, j)
        w == WordRunEnd(text, s)
    IN  IF s > j /\ w > s THEN {j} \cup HeadEnds(text, w) ELSE {j}

\* (?:\s+[A-Za-z'.\-&,]+)* from position j, greedy: the position after it
RECURSIVE TailEnd(_, _)
TailEnd(text, j) ==
    LET s == SpaceRunEnd(text, j)
        w == TailRunEnd(text, s)
    IN  IF s > j /\ w > s THEN TailEnd(text, w) ELSE j

\* \s+v\.\s+[A-Z][a-zA-Z'.\-&,]+(?:...)* from position j: the position after
\* the match, 0 when there is none
VersusEnd(text, j) ==
    LET s1 == SpaceRunEnd(text, j)
        s2 == SpaceRunEnd(text, s1 + 2)
        e1 == TailRunEnd(text, s2 + 1)
    IN  IF /\ s1 > j /\ s1 + 1 <= Len(text)
           /\ text[s1] = "v" /\ text[s1 + 1] = "."
           /\ s2 > s1 + 2 /\ s2 <= Len(text) /\ IsUpper(text[s2])
           /\ e1 > s2 + 1
        THEN TailEnd(text, e1)
        ELSE 0

\* vCasePattern at position i: the position after the match the backtracking
\* matcher finds first (the longest head that " v. " follows), 0 for no match
vCasePattern(text, i) ==
    IF i <= Len(text) /\ IsUpper(text[i]) /\ WordRunEnd(text, i + 1) > i + 1
    THEN LET ends == {j \in HeadEnds(text, WordRunEnd(text, i + 1)) :
                        VersusEnd(text, j) > 0}
         IN  IF ends = {} THEN 0
             ELSE VersusEnd(text, CHOOSE j \in ends : \A k \in ends : k <= j)
    ELSE 0

\* singlePattern at position i: the first name of the list, in its order,
\* that the text continues with; the position after it, 0 for no match
RECURSIVE singlePattern(_, _, _)
singlePattern(names, text, i) ==
    IF names = <<>> THEN 0
    ELSE IF /\ i + Len(Head(names)) - 1 <= Len(text)
            /\ SubSeq(text, i, i + Len(Head(names)) - 1) = Head(names)
         THEN i + Len(Head(names))
    ELSE singlePattern(Tail(names), text, i)

\* (vCasePattern|singlePattern) at position i
regex(names, text, i) ==
    IF vCasePattern(text, i) > 0 THEN vCasePattern(text, i)
    ELSE singlePattern(names, text, i)

\* (mutant) a split that leaves out what the pattern matched
RECURSIVE split_NoCapture(_, _, _, _)
split_NoCapture(names, text, p, q) ==
    IF q > Len(text) THEN <<SubSeq(text, p, Len(text))>>
    ELSE LET e == regex(names, text, q) IN
         IF e = 0 THEN split_NoCapture(names, text, p, q + 1)
         ELSE <<SubSeq(text, p, q - 1)>> \o split_NoCapture(names, text, e, e)

\* String.prototype.split with a pattern of one capture group: the text
\* before each match and the match, then the rest; p is where the current
\* piece starts, q where the next match is looked for
RECURSIVE split(_, _, _, _)
split(names, text, p, q) ==
    IF q > Len(text) THEN <<SubSeq(text, p, Len(text))>>
    ELSE LET e == regex(names, text, q) IN
         IF e = 0 THEN split(names, text, p, q + 1)
         ELSE <<SubSeq(text, p, q - 1), SubSeq(text, q, e - 1)>>
              \o split(names, text, e, e)

\* (mutant) the list as it is, unsorted
sort_Keep(names) == names

\* Array.prototype.sort with (a, b) => b.length - a.length, a stable sort
RECURSIVE sort(_)
sort(names) ==
    IF names = <<>> THEN <<>>
    ELSE LET rest == sort(SubSeq(names, 1, Len(names) - 1))
             x == names[Len(names)]
             RECURSIVE Insert(_)
             Insert(s) ==
                IF s # <<>> /\ Len(x) - Len(s[Len(s)]) > 0
                THEN Append(Insert(SubSeq(s, 1, Len(s) - 1)), s[Len(s)])
                ELSE Append(s, x)
         IN  Insert(rest)

\* parts.map(...).filter(Boolean): empty parts are dropped, the parts at odd
\* indexes (counted from 0) become <em> elements
Segments(parts) ==
    SelectSeq([i \in DOMAIN parts |-> [em |-> (i - 1) % 2 = 1, text |-> parts[i]]],
              LAMBDA seg : seg.text # <<>>)

ItalicInit ==
    /\ index = <<>>
    /\ docket = <<>>
    /\ data = NoData
    /\ pendingCases = <<>>
    /\ decidedCases = <<>>
    /\ sortIn = <<>>
    /\ sortOut = <<>>
    /\ NoSection
    /\ pc = "load"
    /\ SINGLE_CASE_NAMES \in NameLists
    /\ italicText \in ItalicTexts
    /\ italicParts = <<>>
    /\ NoDetail

\* a call of italicizeCaseNames(text, React) by a component that renders text
italicizeCaseNames ==
    /\ pc \in {"load", "formatted"}
    /\ IF italicText = <<>>
       THEN /\ italicParts' = <<>>
            /\ UNCHANGED SINGLE_CASE_NAMES
       ELSE /\ SINGLE_CASE_NAMES' = sort(SINGLE_CASE_NAMES)
            /\ italicParts' = Segments(split(sort(SINGLE_CASE_NAMES), italicText, 1, 1))
    /\ pc' = "formatted"
    /\ UNCHANGED <<pageVars, sectionVars, italicText, detailVars>>

ItalicNext == italicizeCaseNames

SpecItalic == ItalicInit /\ [][ItalicNext]_vars

----------------------------------------------------------------------------
(* app/cases/[caseId]: CaseDetailClient, the predicted outcome line *)

P_Against == <<"A","g","a","i","n","s","t">>
P_For == <<"F","o","r">>
P_Unclear == <<"U","n","c","l","e","a","r">>

Predictions == {P_Against, P_For, P_Unclear}

T_against == <<"a","g","a","i","n","s","t">>
T_for == <<"f","o","r">>

\* predictionSides of a case record
TariffSides ==
    [sideA |-> [label |-> "Against Tariffs", matchTerms |-> <<T_against>>],
     sideB |-> [label |-> "For Tariffs", matchTerms |-> <<T_for>>]]

\* the sides used when the record has no predictionSides
DefaultSides ==
    [sideA |-> [label |-> "Side A", matchTerms |-> <<>>],
     sideB |-> [label |-> "Side B", matchTerms |-> <<>>]]

EnDash == "\\u2013"

\* caseData.predictionSides || { ... }
sides(record) ==
    IF record.predictionSides = <<>> THEN DefaultSides ELSE record.predictionSides[1]

\* matchTerms.some((t) => v.prediction.toLowerCase().includes(t))
MatchesSide(v, side) ==
    \E k \in DOMAIN side.matchTerms :
        includes(toLowerCase(v.prediction), side.matchTerms[k])

\* (mutant) the prediction is compared as written
sideACount_AsWritten(record) ==
    Cardinality({i \in DOMAIN record.justiceVotes :
        \E k \in DOMAIN sides(record).sideA.matchTerms :
            includes(record.justiceVotes[i].prediction,
                     sides(record).sideA.matchTerms[k])})

sideACount(record) ==
    Cardinality({i \in DOMAIN record.justiceVotes :
                    MatchesSide(record.justiceVotes[i], sides(record).sideA)})

\* (mutant) side B tallied by its own keywords
sideBCount_Tallied(record) ==
    Cardinality({i \in DOMAIN record.justiceVotes :
                    MatchesSide(record.justiceVotes[i], sides(record).sideB)})

sideBCount(record) == 9 - sideACount(record)

majorityLabel(record) ==
    IF sideACount(record) > sideBCount(record)
    THEN sides(record).sideA.label
    ELSE sides(record).sideB.label

\* Math.max and Math.min of the two counts
majorityCount(record) ==
    IF sideACount(record) >= sideBCount(record)
    THEN sideACount(record) ELSE sideBCount(record)

minorityCount(record) ==
    IF sideACount(record) <= sideBCount(record)
    THEN sideACount(record) ELSE sideBCount(record)

\* the template literal `${majorityCount}–${minorityCount}: ${majorityLabel}`,
\* piece by piece
PredictedOutcome(record) ==
    <<ToString(majorityCount(record)), EnDash, ToString(minorityCount(record)),
      ": ", majorityLabel(record)>>

\* the case records whose votes are classified
VoteLists ==
    {[i \in DOMAIN ps |-> [prediction |-> ps[i]]] : ps \in SeqsUpTo(Predictions, MaxVotes)}

VoteRecords ==
    [id : {Id_A}, justiceVotes : VoteLists, predictionSides : {<<>>, <<TariffSides>>}]

VotesInit ==
    /\ index = <<>>
    /\ docket = <<>>
    /\ data = NoData
    /\ pendingCases = <<>>
    /\ decidedCases = <<>>
    /\ sortIn = <<>>
    /\ sortOut = <<>>
    /\ NoSection
    /\ NoItalic
    /\ pc = "mounted"
    /\ caseFiles = <<>>
    /\ caseId = <<>>
    /\ caseData \in VoteRecords
    /\ predictedOutcome = <<>>
    /\ activeTab = "scenarios"
    /\ expandedScenario = <<>>

\* a render of CaseDetailClient with the record it was handed
CaseDetailClient ==
    /\ pc = "mounted"
    /\ predictedOutcome' = PredictedOutcome(caseData)
    /\ pc' = "rendered"
    /\ UNCHANGED <<pageVars, sectionVars, italicVars, caseFiles, caseId, caseData,
                   activeTab, expandedScenario>>

VotesNext == CaseDetailClient

SpecVotes == VotesInit /\ [][VotesNext]_vars

----------------------------------------------------------------------------
(* app/cases/[caseId]/page.jsx and lib/cases.js: the detail route *)

DetailIds == {Id_A, Id_B, K_30_0001}

\* n votes of one prediction
Votes(n, p) == [i \in 1..n |-> [prediction |-> p]]

\* the scenarios of a record, identified by their sequence numbers
Scenarios(n) == [i \in 1..n |-> [id |-> i]]

\* the records a file <id>.json may hold; comparisonAnalysis is optional
DetailRecords(id) ==
    [id : {id},
     justiceVotes : {Votes(6, P_Against) \o Votes(3, P_For),
                     Votes(4, P_Against) \o Votes(5, P_For)},
     predictionSides : {<<>>, <<TariffSides>>},
     comparisonAnalysis : {<<>>, <<"analysis">>},
     scenarios : {Scenarios(MaxScenarios)}]

\* the directories data/cases: some of the ids have a file
CaseDirectories ==
    UNION {{f \in [S -> UNION {DetailRecords(id) : id \in S}] :
                \A id \in S : f[id].id = id} : S \in SUBSET DetailIds}

\* getCaseData: JSON.parse(fs.readFileSync(<caseId>.json)); <<>> stands for the
\* exception readFileSync throws when there is no such file
getCaseData(files, id) == IF id \in DOMAIN files THEN <<files[id]>> ELSE <<>>

DetailInit ==
    /\ index = <<>>
    /\ docket = <<>>
    /\ data = NoData
    /\ pendingCases = <<>>
    /\ decidedCases = <<>>
    /\ sortIn = <<>>
    /\ sortOut = <<>>
    /\ NoSection
    /\ NoItalic
    /\ pc = "site"
    /\ caseFiles \in CaseDirectories
    /\ caseId = <<>>
    /\ caseData = <<>>
    /\ predictedOutcome = <<>>
    /\ activeTab = NoTab
    /\ expandedScenario = <<>>

\* a request of /cases/<id>: CaseDetailPage calls getCaseData and hands the
\* record to CaseDetailClient; nothing catches the exception of getCaseData
\* and nothing calls notFound(), so a missing file ends the request in an error;
\* a CaseDetailClient that is mounted starts from its useState values
CaseDetailPage(id) ==
    /\ pc \in {"site", "detail", "error"}
    /\ caseId' = <<id>>
    /\ LET got == getCaseData(caseFiles, id) IN
        IF got # <<>>
        THEN /\ caseData' = got[1]
             /\ predictedOutcome' = PredictedOutcome(got[1])
             /\ activeTab' = "scenarios"
             /\ pc' = "detail"
        ELSE /\ caseData' = <<>>
             /\ predictedOutcome' = <<>>
             /\ activeTab' = NoTab
             /\ pc' = "error"
    /\ expandedScenario' = <<>>
    /\ UNCHANGED <<pageVars, sectionVars, italicVars, caseFiles>>

\* (mutant) the "comparison" tab is offered for every record
tabs_AlwaysComparison(record) == <<"scenarios", "justices", "comparison">>

\* the ids of the tabs built for a record
tabs(record) ==
    <<"scenarios", "justices">>
        \o (IF record.comparisonAnalysis # <<>> THEN <<"comparison">> ELSE <<>>)

\* the tab panels CaseDetailClient renders
TabPanels ==
    (IF activeTab = "scenarios" THEN {"scenarios"} ELSE {})
        \cup (IF activeTab = "justices" THEN {"justices"} ELSE {})
        \cup (IF activeTab = "comparison" /\ caseData.comparisonAnalysis # <<>>
              THEN {"comparison"} ELSE {})

\* a click on a button of TabNav: onTabChange(tab.id)
setActiveTab(id) ==
    /\ pc = "detail"
    /\ \E t \in DOMAIN tabs(caseData) : tabs(caseData)[t] = id
    /\ activeTab' = id
    /\ UNCHANGED <<pageVars, pc, sectionVars, italicVars,
                   caseFiles, caseId, caseData, predictedOutcome, expandedScenario>>

\* (mutant) a click collapses whatever scenario is expanded and expands a
\* scenario only when none is
handleScenarioClick_CollapseFirst(id) ==
    /\ pc = "detail"
    /\ activeTab = "scenarios"
    /\ \E i \in DOMAIN caseData.scenarios : caseData.scenarios[i].id = id
    /\ expandedScenario' = IF expandedScenario # <<>> THEN <<>> ELSE <<id>>
    /\ UNCHANGED <<pageVars, pc, sectionVars, italicVars,
                   caseFiles, caseId, caseData, predictedOutcome, activeTab>>

\* a click on a scenario card or on a segment of the probability bar, both
\* rendered in the scenarios panel; the scroll that follows changes no state
handleScenarioClick(id) ==
    /\ pc = "detail"
    /\ activeTab = "scenarios"
    /\ \E i \in DOMAIN caseData.scenarios : caseData.scenarios[i].id = id
    /\ expandedScenario' = IF expandedScenario = <<id>> THEN <<>> ELSE <<id>>
    /\ UNCHANGED <<pageVars, pc, sectionVars, italicVars,
                   caseFiles, caseId, caseData, predictedOutcome, activeTab>>

\* the scenario cards rendered with isExpanded true
ExpandedScenarios ==
    {i \in DOMAIN caseData.scenarios : expandedScenario = <<caseData.scenarios[i].id>>}

TabIds == {"scenarios", "justices", "comparison"}

DetailNext ==
    \/ \E id \in DetailIds : CaseDetailPage(id)
    \/ \E id \in TabIds : setActiveTab(id)
    \/ \E id \in 1..MaxScenarios : handleScenarioClick(id)

SpecDetail == DetailInit /\ [][DetailNext]_vars

----------------------------------------------------------------------------
(* Properties of getFullDocket *)

\* getFullDocket has returned
Merged == pc = "home"

AllCases == data.allCases

Count(S) == Cardinality(S)

\* the position in index.cases of the first record whose docket string
\* contains the docket number k, 0 when no record does
FirstMatch(k) ==
    LET S == {c \in DOMAIN index : includes(index[c].docket, k)} IN
    IF S = {} THEN 0 ELSE CHOOSE c \in S : \A d \in S : c <= d

\* the docket positions whose key has a matching predicted record
MatchedKeys == {i \in DOMAIN docket : FirstMatch(docket[i].key) # 0}

\* the record matched to each docket position (0 for none)
MatchOf == [i \in DOMAIN docket |-> FirstMatch(docket[i].key)]

MatchedIds ==
    LET m == MatchOf IN {index[m[i]].id : i \in {j \in DOMAIN docket : m[j] # 0}}

\* the docket positions whose matching record was already merged for an earlier key
SkippedKeys ==
    LET m == MatchOf IN
    {i \in DOMAIN docket :
        /\ m[i] # 0
        /\ \E j \in DOMAIN docket :
            j < i /\ m[j] # 0 /\ index[m[j]].id = index[m[i]].id}

\* the predicted records no docket entry is matched to: the safety-net entries
Unmatched ==
    LET ids == MatchedIds IN {c \in DOMAIN index : index[c].id \notin ids}

\* the docket positions whose key the docket string of record c contains
KeysIn(c) == {i \in DOMAIN docket : includes(index[c].docket, docket[i].key)}

\* the docket positions matched to record c
KeysOf(c) == {i \in DOMAIN docket : FirstMatch(docket[i].key) = c}

Least(S) == CHOOSE i \in S : \A j \in S : i <= j

\* the positions of allCases holding the predicted record with this id
DetailedAt(id) == {p \in DOMAIN AllCases : AllCases[p].hasPrediction /\ AllCases[p].id = id}

\* the positions of allCases holding the lightweight entry of docket number k
LightweightAt(k) == {p \in DOMAIN AllCases : ~AllCases[p].hasPrediction /\ AllCases[p].id = k}

UniqueIndexIds == \A c, d \in DOMAIN index : index[c].id = index[d].id => c = d

\* entry e stands for docket number k: its lightweight entry, or a predicted
\* case whose docket string contains k
EntryOfKey(e, k) ==
    \/ ~e.hasPrediction /\ e.id = k
    \/ e.hasPrediction /\ includes(e.docket, k)

\* C1 as stated: every docket key has an entry of allCases of its own, i.e. the
\* keys can be assigned pairwise different entries that stand for them
C1_OwnEntryPerKey ==
    Merged =>
        \E f \in [DOMAIN docket -> DOMAIN AllCases] :
            /\ \A i, j \in DOMAIN docket : f[i] = f[j] => i = j
            /\ \A i \in DOMAIN docket : EntryOfKey(AllCases[f[i]], docket[i].key)

\* C1 amended: a docket key that no predicted record matches has exactly one
\* lightweight entry, whose id is the key; every other key is covered by the
\* single entry of the first record whose docket string contains it and has no
\* lightweight entry, so keys matched to the same record share one entry
C1_KeyCovered ==
    Merged =>
        \A i \in DOMAIN docket :
            LET k == docket[i].key
                c == FirstMatch(k)
            IN IF c = 0
               THEN Count(LightweightAt(k)) = 1
               ELSE /\ Count(DetailedAt(index[c].id)) = 1
                    /\ LightweightAt(k) = {}
                    /\ \A p \in DetailedAt(index[c].id) : AllCases[p].docket = index[c].docket

\* C1 witness: getFullDocket has run on a docket with two keys that the same
\* consolidated record matches
C1_Witness ==
    /\ Merged
    /\ \E i, j \in MatchedKeys :
        i # j /\ FirstMatch(docket[i].key) = FirstMatch(docket[j].key)

\* C2 as stated: the length of allCases, and totalCount, is the number of docket
\* entries plus the number of unmatched predicted records
C2_DocketPlusUnmatched ==
    Merged =>
        LET n == Len(docket) + Count(Unmatched) IN
        /\ Len(AllCases) = n
        /\ data.totalCount = n

\* C2 amended: the length of allCases, and totalCount, is the number of docket
\* entries, less the entries whose matching record was already merged for an
\* earlier key, plus the number of unmatched predicted records
C2_TotalCount ==
    Merged =>
        LET n == Len(docket) - Count(SkippedKeys) + Count(Unmatched) IN
        /\ Len(AllCases) = n
        /\ data.totalCount = n

\* C2 witness: a merge with a skipped docket entry and a safety-net entry
C2_Witness ==
    /\ Merged
    /\ SkippedKeys # {}
    /\ Unmatched # {}

\* C3 as stated: with pairwise distinct ids in the index, no two entries of
\* allCases have the same id
C3_NoDuplicateIds ==
    (Merged /\ UniqueIndexIds) =>
        \A p, q \in DOMAIN AllCases : AllCases[p].id = AllCases[q].id => p = q

\* every predicted record's docket string contains exactly one docket key
OneKeyEach == \A c \in DOMAIN index : Count(KeysIn(c)) = 1

\* no two predicted records contain the same docket key
NoSharedKey == \A c, d \in DOMAIN index : c # d => KeysIn(c) \cap KeysIn(d) = {}

Flagged == {p \in DOMAIN AllCases : AllCases[p].hasPrediction}

C5_TimelineOfFirstContainedKey ==
    Merged =>
        /\ \A i \in MatchedKeys :
            /\ LightweightAt(docket[i].key) = {}
            /\ DetailedAt(index[FirstMatch(docket[i].key)].id) # {}
        /\ \A c \in DOMAIN index :
            /\ Count(DetailedAt(index[c].id)) <= 1
            /\ KeysIn(c) # {} =>
                \A p \in DetailedAt(index[c].id) :
                    AllCases[p].timeline = docket[Least(KeysIn(c))].timeline

\* C5 amended: as C5, but the timeline of an emitted record is that of the
\* first docket key matched to it, i.e. the first key for which it is the first
\* record containing the key, and is empty when no key is matched to it
C5_FirstMatchWins ==
    Merged =>
        /\ \A i \in MatchedKeys :
            /\ LightweightAt(docket[i].key) = {}
            /\ DetailedAt(index[FirstMatch(docket[i].key)].id) # {}
        /\ \A c \in DOMAIN index :
            LET at == DetailedAt(index[c].id)
                keys == KeysOf(c)
            IN /\ Count(at) <= 1
               /\ \A p \in at :
                   AllCases[p].timeline =
                       IF keys # {} THEN docket[Least(keys)].timeline ELSE {}

\* C5 witness: a merge in which one record is matched by two docket keys and
\* another record contains a key that is matched to the record before it
C5_Witness ==
    /\ Merged
    /\ \E c \in DOMAIN index : Count(KeysOf(c)) = 2
    /\ \E c \in DOMAIN index : KeysIn(c) # {} /\ KeysOf(c) = {}

\* the positions of allCases that come from a docket entry
DocketDerived ==
    LET ids == MatchedIds IN
    {p \in DOMAIN AllCases : ~AllCases[p].hasPrediction \/ AllCases[p].id \in ids}

\* the predicted records whose docket string contains no docket key
Keyless == {c \in DOMAIN index : KeysIn(c) = {}}

\* a keyless predicted record is in allCases, after the docket-derived entries,
\* flagged and with an empty timeline
KeylessAppended ==
    LET derived == DocketDerived IN
    \A c \in Keyless :
        \E p \in DOMAIN AllCases :
            /\ AllCases[p].id = index[c].id
            /\ AllCases[p].docket = index[c].docket
            /\ AllCases[p].status = index[c].status
            /\ AllCases[p].hasPrediction
            /\ AllCases[p].timeline = {}
            /\ \A q \in derived : q < p

\* C6 as stated: every keyless record is appended, and with N docket entries
\* and exactly one keyless record the output has N+1 entries
C6_SafetyNetAsStated ==
    Merged =>
        /\ KeylessAppended
        /\ Count(Keyless) = 1 => Len(AllCases) = Len(docket) + 1

\* C6 amended: every keyless record is appended, and with N docket entries,
\* exactly one keyless record and every other record containing exactly one
\* docket key, which no other record contains, the output has N+1 entries
C6_SafetyNet ==
    (Merged /\ UniqueIndexIds) =>
        /\ KeylessAppended
        /\ (/\ Count(Keyless) = 1
            /\ \A c \in DOMAIN index \ Keyless : Count(KeysIn(c)) = 1
            /\ NoSharedKey) => Len(AllCases) = Len(docket) + 1

\* C6 witness: a merge of a keyless record, a record with one key and a docket
\* of two entries
C6_Witness ==
    /\ Merged
    /\ Count(Keyless) = 1
    /\ \E c \in DOMAIN index : Count(KeysIn(c)) = 1
    /\ NoSharedKey
    /\ Len(docket) = 2

\* the input of the end-to-end scenario: cases A ("24-1287") and B ("25-9999"),
\* docket keys "24-1287" and "30-0001", the latter neither argued nor decided
Scenario(a, b, i, j) ==
    /\ DOMAIN index = {a, b} /\ a # b
    /\ index[a].docket = D_24_1287
    /\ index[b].docket = D_25_9999
    /\ DOMAIN docket = {i, j} /\ i # j
    /\ docket[i].key = K_24_1287
    /\ docket[j].key = K_30_0001
    /\ ~docket[j].argued /\ ~docket[j].decided

\* C7: in the end-to-end scenario allCases has exactly 3 entries: A flagged with
\* the timeline of "24-1287", the lightweight "Granted" entry "30-0001", and B
\* flagged with an empty timeline
C7_EndToEnd ==
    Merged =>
        \A a, b \in DOMAIN index : \A i, j \in DOMAIN docket :
            Scenario(a, b, i, j) =>
                /\ Len(AllCases) = 3
                /\ data.totalCount = 3
                /\ \E p \in DOMAIN AllCases :
                    /\ AllCases[p].id = index[a].id
                    /\ AllCases[p].docket = D_24_1287
                    /\ AllCases[p].hasPrediction
                    /\ AllCases[p].timeline = docket[i].timeline
                /\ \E p \in DOMAIN AllCases :
                    /\ AllCases[p].id = K_30_0001
                    /\ AllCases[p].status = "Granted"
                    /\ ~AllCases[p].hasPrediction
                /\ \E p \in DOMAIN AllCases :
                    /\ AllCases[p].id = index[b].id
                    /\ AllCases[p].docket = D_25_9999
                    /\ AllCases[p].hasPrediction
                    /\ AllCases[p].timeline = {}

\* C7 witness: getFullDocket has run on the scenario's files
C7_Witness ==
    /\ Merged
    /\ \E a, b \in DOMAIN index : \E i, j \in DOMAIN docket : Scenario(a, b, i, j)

\* C8: the status of a lightweight entry is "Decided" when its docket entry is
\* decided (argued or not), else "Argued" when it is argued, else "Granted",
\* and is never anything else
C8_LightweightStatus ==
    Merged =>
        \A p \in DOMAIN AllCases :
            ~AllCases[p].hasPrediction =>
                /\ AllCases[p].status \in {"Decided", "Argued", "Granted"}
                /\ \E i \in DOMAIN docket :
                    /\ docket[i].key = AllCases[p].id
                    /\ docket[i].decided => AllCases[p].status = "Decided"
                    /\ (~docket[i].decided /\ docket[i].argued) =>
                        AllCases[p].status = "Argued"
                    /\ (~docket[i].decided /\ ~docket[i].argued) =>
                        AllCases[p].status = "Granted"

\* C8 witness: allCases holds the lightweight entry of a docket entry that is
\* both argued and decided, and one of an entry that is only argued
C8_Witness ==
    /\ Merged
    /\ \E i, j \in DOMAIN docket :
        /\ docket[i].decided /\ docket[i].argued
        /\ ~docket[j].decided /\ docket[j].argued
        /\ LightweightAt(docket[i].key) # {}
        /\ LightweightAt(docket[j].key) # {}

----------------------------------------------------------------------------
(* Properties of the listing page and of sortCases *)

\* the number of occurrences of e in the list s
Occurrences(s, e) == Count({p \in DOMAIN s : s[p] = e})

\* in the list s every entry with a prediction precedes every entry without
PredictedFirst(s) ==
    \A p, q \in DOMAIN s : (p < q /\ s[q].hasPrediction) => s[p].hasPrediction

\* C9: every entry of the merged list is in exactly one of the two displayed
\* lists, the decided list when its status is "Decided" and the pending list
\* otherwise, and in both lists the entries with a prediction come first
C9_Partition ==
    pc = "home" =>
        /\ \A p \in DOMAIN AllCases :
            LET e == AllCases[p] IN
            /\ Occurrences(pendingCases, e) + Occurrences(decidedCases, e) = 1
            /\ Occurrences(decidedCases, e) = 1 <=> e.status = "Decided"
        /\ Len(pendingCases) + Len(decidedCases) = Len(AllCases)
        /\ PredictedFirst(pendingCases)
        /\ PredictedFirst(decidedCases)

\* C9 witness: the page is rendered from a merged list in which, both among the
\* decided and among the pending entries, a lightweight entry precedes a
\* predicted one
C9_Witness ==
    /\ pc = "home"
    /\ \E p, q \in DOMAIN AllCases :
        /\ p < q
        /\ ~AllCases[p].hasPrediction /\ AllCases[q].hasPrediction
        /\ AllCases[p].status = "Decided" /\ AllCases[q].status = "Decided"
    /\ pendingCases # <<>>

\* C10: in the output of sortCases, of two entries without prediction the one
\* of lower stage rank comes first: no "Argued" entry comes after an entry of
\* another status, no "Granted" entry after a "Decided" one or one of unknown
\* status, no "Decided" entry after one of unknown status
C10_StageOrder ==
    pc = "sorted" =>
        \A p, q \in DOMAIN sortOut :
            (p < q /\ ~sortOut[p].hasPrediction /\ ~sortOut[q].hasPrediction) =>
                /\ sortOut[q].status = "Argued" => sortOut[p].status = "Argued"
                /\ sortOut[q].status = "Granted" =>
                    sortOut[p].status \in {"Argued", "Granted"}
                /\ sortOut[q].status = "Decided" =>
                    sortOut[p].status \in {"Argued", "Granted", "Decided"}

\* C10 witness: sortCases has sorted a list whose entries without prediction
\* came in the order unknown status, "Decided", "Argued"
C10_Witness ==
    /\ pc = "sorted"
    /\ \E p, q, r \in DOMAIN sortIn :
        /\ p < q /\ q < r
        /\ ~sortIn[p].hasPrediction /\ ~sortIn[q].hasPrediction /\ ~sortIn[r].hasPrediction
        /\ sortIn[p].status = "Awaiting Decision"
        /\ sortIn[q].status = "Decided"
        /\ sortIn[r].status = "Argued"
    /\ Len(sortOut) = Len(sortIn)

\* position of the entry of the given id in a list of entries of distinct ids
PositionOf(s, id) == CHOOSE p \in DOMAIN s : s[p].id = id

\* the entries the comparator of sortCases leaves in place: both carry a
\* detailed prediction, or neither does and both have the same stage rank
\* (the same of the three known statuses, or both an unknown status)
KnownStatuses == {"Argued", "Granted", "Decided"}

SameSortKey(a, b) ==
    \/ a.hasPrediction /\ b.hasPrediction
    \/ /\ ~a.hasPrediction /\ ~b.hasPrediction
       /\ \/ a.status = b.status
          \/ a.status \notin KnownStatuses /\ b.status \notin KnownStatuses

----------------------------------------------------------------------------
(* Properties of DocketSection *)

Mounted == pc = "section"

\* a lower-case image of sub occurs in the lower-case image of str
ContainsIgnoringCase(str, sub) ==
    \E k \in 0..(Len(str) - Len(sub)) :
        \A j \in 1..Len(sub) : LowerChar(str[k + j]) = LowerChar(sub[j])

BlankQuery == \A i \in DOMAIN searchQuery : searchQuery[i] = Space

\* positions of the cases the search keeps
KeptPositions ==
    IF BlankQuery THEN DOMAIN sectionCases
    ELSE {i \in DOMAIN sectionCases :
            \/ ContainsIgnoringCase(sectionCases[i].name, searchQuery)
            \/ ContainsIgnoringCase(sectionCases[i].docket, searchQuery)}

\* the n-th smallest element of a set of positions
NthOf(S, n) == CHOOSE i \in S : Cardinality({j \in S : j <= i}) = n

\* the cases at the given positions, in their order
CasesAt(S) == [n \in 1..Cardinality(S) |-> sectionCases[NthOf(S, n)]]

GroupRank(status) ==
    CASE status = "Argued" -> 1 [] status = "Granted" -> 2 [] status = "Decided" -> 3

\* C12: the filtered cases without prediction are split into sub-groups by
\* status, displayed in the order Argued, Granted, Decided whatever the input
\* order; a sub-group is displayed iff it has at least one case, and holds
\* exactly the filtered cases of its status in their input order
C12_SubGroups ==
    Mounted =>
        LET shown == {i \in DOMAIN sectionCases :
                        /\ \E p \in DOMAIN filteredCases :
                                filteredCases[p] = sectionCases[i]
                        /\ ~sectionCases[i].hasPrediction}
        IN
        /\ \A i \in DOMAIN groups : groups[i].status \in KnownStatuses
        /\ \A i, j \in DOMAIN groups :
            i < j => GroupRank(groups[i].status) < GroupRank(groups[j].status)
        /\ \A st \in KnownStatuses :
            LET ofStatus == {i \in shown : sectionCases[i].status = st} IN
            /\ (\E i \in DOMAIN groups : groups[i].status = st) <=> ofStatus # {}
            /\ \A i \in DOMAIN groups :
                groups[i].status = st => groups[i].cases = CasesAt(ofStatus)

\* C12 witness: under the query "aB" two sub-groups are displayed, Argued then
\* Decided, for a list that holds the Decided case before the Argued one
C12_Witness ==
    /\ Mounted
    /\ searchQuery = <<"a","B">>
    /\ Len(groups) = 2
    /\ groups[1].status = "Argued" /\ groups[2].status = "Decided"
    /\ \E p, q \in DOMAIN sectionCases :
        /\ p < q
        /\ sectionCases[p].status = "Decided" /\ ~sectionCases[p].hasPrediction
        /\ sectionCases[q].status = "Argued" /\ ~sectionCases[q].hasPrediction

\* C13: the filter comes before the split: a blank query keeps the full list,
\* any other query keeps exactly the cases whose name or docket string contains
\* the query, both in lower case, in their original order; the predicted cards
\* and the sub-groups are drawn from the kept cases only
C13_Filter ==
    Mounted =>
        /\ filteredCases = CasesAt(KeptPositions)
        /\ predictedCases =
            CasesAt({i \in KeptPositions : sectionCases[i].hasPrediction})
        /\ \A i \in DOMAIN groups : \A j \in DOMAIN groups[i].cases :
            \E p \in KeptPositions : sectionCases[p] = groups[i].cases[j]

\* C13 witness: the query "aB" keeps the case named "Ab" and drops the other,
\* which is of another status without prediction
C13_Witness ==
    /\ Mounted
    /\ searchQuery = <<"a","B">>
    /\ Len(sectionCases) = 2
    /\ Len(filteredCases) = 1
    /\ ~sectionCases[1].hasPrediction /\ ~sectionCases[2].hasPrediction
    /\ sectionCases[1].status # sectionCases[2].status
    /\ Len(groups) = 1

\* the collapsed flags as the section reads them
CollapsedFlags(cg) == [i \in DOMAIN GROUP_ORDER |-> Collapsed(cg, GROUP_ORDER[i])]

\* a step that replaces collapsedGroups, which only toggleGroup does
C14_Step ==
    collapsedGroups' # collapsedGroups =>
        /\ searchQuery' = searchQuery
        /\ expandedCardId' = expandedCardId
        /\ \E i \in DOMAIN GROUP_ORDER :
            LET status == GROUP_ORDER[i] IN
            /\ Collapsed(collapsedGroups', status) = ~Collapsed(collapsedGroups, status)
            /\ \A j \in DOMAIN GROUP_ORDER :
                j # i => Collapsed(collapsedGroups', GROUP_ORDER[j])
                            = Collapsed(collapsedGroups, GROUP_ORDER[j])
            /\ CollapsedFlags(ToggledGroups(collapsedGroups', status))
                = CollapsedFlags(collapsedGroups)

\* C14: all sub-groups start expanded; a toggle of one status flips the
\* collapsed flag of that status only and leaves the other flags, the search
\* query and the expanded row as they were, and a second toggle of the same
\* status brings the flags back
C14_ToggleGroup ==
    /\ (Mounted => \A i \in DOMAIN GROUP_ORDER : ~Collapsed(collapsedGroups, GROUP_ORDER[i]))
    /\ [][C14_Step]_vars

\* C14 witness: one sub-group is collapsed and another has been collapsed and
\* expanded again, with a query typed and a row expanded
C14_Witness ==
    /\ Mounted
    /\ \E i, j \in DOMAIN GROUP_ORDER :
        /\ Collapsed(collapsedGroups, GROUP_ORDER[i])
        /\ <<GROUP_ORDER[j], FALSE>> \in collapsedGroups
    /\ searchQuery # <<>>
    /\ expandedCardId # <<>>

----------------------------------------------------------------------------
(* Properties of italicizeCaseNames *)

Formatted == pc = "formatted"

\* the texts of the segments, one after the other
RECURSIVE SegmentsText(_)
SegmentsText(segs) ==
    IF segs = <<>> THEN <<>> ELSE Head(segs).text \o SegmentsText(Tail(segs))

\* C15: for a non-empty text, the segments returned by italicizeCaseNames, plain
\* and emphasized, concatenated in order are the text: no character is lost,
\* duplicated or reordered
C15_RoundTrip ==
    (Formatted /\ italicText # <<>>) => SegmentsText(italicParts) = italicText

\* C15 witness: a text has been cut into a plain segment, an emphasized
\* "X v. Y" segment and a plain rest, the split having dropped no empty part
C15_Witness ==
    /\ Formatted
    /\ Len(italicParts) = 3
    /\ ~italicParts[1].em /\ italicParts[2].em /\ ~italicParts[3].em
    /\ includes(italicParts[2].text, <<" ","v","."," ">>)

\* position in the text of the first character of the n-th segment
SegmentStart(segs, n) == Len(SegmentsText(SubSeq(segs, 1, n - 1))) + 1

\* the characters p..q of the text lie in one emphasized segment
EmphasizedAsOne(p, q) ==
    \E n \in DOMAIN italicParts :
        /\ italicParts[n].em
        /\ SegmentStart(italicParts, n) <= p
        /\ q < SegmentStart(italicParts, n + 1)

\* the positions at which the text continues with the name
OccurrencesOf(name) ==
    {p \in 1..(Len(italicText) - Len(name) + 1) :
        SubSeq(italicText, p, p + Len(name) - 1) = name}

\* C16: when a known name is a substring of a longer known name, every
\* occurrence of the longer name in the text lies in one emphasized segment,
\* and no emphasized segment is the shorter name taken from inside it
C16_LongestFirst ==
    Formatted =>
        \A a, b \in DOMAIN SINGLE_CASE_NAMES :
            LET short == SINGLE_CASE_NAMES[a]
                long == SINGLE_CASE_NAMES[b]
            IN  (short # long /\ includes(long, short)) =>
                    \A p \in OccurrencesOf(long) :
                        /\ EmphasizedAsOne(p, p + Len(long) - 1)
                        /\ \A n \in DOMAIN italicParts :
                            (italicParts[n].em /\ italicParts[n].text = short) =>
                                \/ SegmentStart(italicParts, n + 1) <= p
                                \/ p + Len(long) <= SegmentStart(italicParts, n)

\* C16 witness: with "Brown" and "Brown & Williamson" known, the text
\* "Brown & Williamson Tobacco" has been cut into the emphasized segment
\* "Brown & Williamson" and a plain rest
C16_Witness ==
    /\ Formatted
    /\ \E a \in DOMAIN SINGLE_CASE_NAMES : SINGLE_CASE_NAMES[a] = N_Brown
    /\ OccurrencesOf(N_BrownWilliamson) = {1}
    /\ Len(italicParts) = 2
    /\ italicParts[1] = [em |-> TRUE, text |-> N_BrownWilliamson]
    /\ ~italicParts[2].em

\* C20: no call of italicizeCaseNames changes SINGLE_CASE_NAMES: the list
\* keeps the elements and the order it had when the module was loaded
C20_NamesNeverMutated == [][SINGLE_CASE_NAMES' = SINGLE_CASE_NAMES]_vars

----------------------------------------------------------------------------
(* Properties of the predicted outcome line *)

Rendered == pc = "rendered"

\* the votes of the record whose prediction text contains the keyword,
\* whatever the case of its letters
VotesContaining(term) ==
    {i \in DOMAIN caseData.justiceVotes :
        ContainsIgnoringCase(caseData.justiceVotes[i].prediction, term)}

\* C17: with side A keywords ["against"], side B keywords ["for"] and 9 votes
\* of which 6 contain "against" and 3 contain "for", the predicted outcome is
\* "6-3: " (with an en dash) followed by side A's label
C17_SixThree ==
    (/\ Rendered
     /\ caseData.predictionSides = <<TariffSides>>
     /\ Len(caseData.justiceVotes) = 9
     /\ Cardinality(VotesContaining(T_against)) = 6
     /\ Cardinality(VotesContaining(T_for)) = 3) =>
        predictedOutcome = <<"6", EnDash, "3", ": ", "Against Tariffs">>

\* C17 witness: the outcome line is rendered for nine votes, "For" first, of
\* which six read "Against" and three "For"
C17_Witness ==
    /\ Rendered
    /\ caseData.predictionSides = <<TariffSides>>
    /\ Len(caseData.justiceVotes) = 9
    /\ Cardinality(VotesContaining(T_against)) = 6
    /\ Cardinality(VotesContaining(T_for)) = 3
    /\ caseData.justiceVotes[1].prediction = P_For
    /\ predictedOutcome[5] = "Against Tariffs"

\* the keywords of a side as a set
TermsOf(side) == {side.matchTerms[k] : k \in DOMAIN side.matchTerms}

\* the votes whose prediction text contains a keyword of the side
TallyOf(side) ==
    Cardinality({i \in DOMAIN caseData.justiceVotes :
        \E t \in TermsOf(side) :
            ContainsIgnoringCase(caseData.justiceVotes[i].prediction, t)})

\* C18: each vote is assigned to a side by case-insensitive substring match
\* against that side's own keywords, one tally per side; the majority is the
\* label of the side of the higher tally and the line reads higher tally, en
\* dash, lower tally (stated for the records of nine votes)
C18_TallyPerSide ==
    (Rendered /\ Len(caseData.justiceVotes) = 9) =>
        LET a == TallyOf(sides(caseData).sideA)
            b == TallyOf(sides(caseData).sideB)
        IN  /\ a > b => predictedOutcome =
                <<ToString(a), EnDash, ToString(b), ": ", sides(caseData).sideA.label>>
            /\ b > a => predictedOutcome =
                <<ToString(b), EnDash, ToString(a), ": ", sides(caseData).sideB.label>>

\* C26: side B's count is 9 minus the number of votes matching a side A
\* keyword, whatever side B's keywords and however many votes there are; the
\* two rendered numbers sum to 9 with the larger first, side A's label is
\* reported exactly when side A's count is at least 5, and the default sides
\* give "9-0: Side B" (with an en dash)
C26_NineMinusSideA ==
    Rendered =>
        LET a == TallyOf(sides(caseData).sideA)
            b == 9 - a
            hi == IF a >= b THEN a ELSE b
            lo == 9 - hi
        IN  /\ lo \in {a, b}
            /\ hi >= lo
            /\ predictedOutcome[1] = ToString(hi)
            /\ predictedOutcome[2] = EnDash
            /\ predictedOutcome[3] = ToString(lo)
            /\ predictedOutcome[5] = sides(caseData).sideA.label <=> a >= 5
            /\ predictedOutcome[5] \in {sides(caseData).sideA.label,
                                        sides(caseData).sideB.label}
            /\ caseData.predictionSides = <<>> =>
                predictedOutcome = <<"9", EnDash, "0", ": ", "Side B">>

\* nine votes of which four match side A, two match side B's own keyword and
\* three match neither: the line reads 5-4 for side B
C26_Witness ==
    /\ Rendered
    /\ caseData.predictionSides = <<TariffSides>>
    /\ Len(caseData.justiceVotes) = 9
    /\ Cardinality(VotesContaining(T_against)) = 4
    /\ Cardinality(VotesContaining(T_for)) = 2
    /\ predictedOutcome = <<"5", EnDash, "4", ": ", "For Tariffs">>

----------------------------------------------------------------------------
(* Properties of the detail route *)

\* C19: a request for an id without a record ends in the not-found page and
\* never in an error; a request for an id with a record is answered with
\* exactly that record
C19_NotFound ==
    caseId # <<>> =>
        IF caseId[1] \in DOMAIN caseFiles
        THEN pc = "detail" /\ caseData = caseFiles[caseId[1]]
        ELSE pc = "notFound"

----------------------------------------------------------------------------
(* Further properties of getFullDocket *)

\* C25: for an index with pairwise distinct ids, predictedCount is the number
\* of allCases entries with hasPrediction true, each predicted case appearing
\* exactly once, totalCount is the length of allCases, and predictedCount
\* never exceeds totalCount
C25_CountFields ==
    (Merged /\ UniqueIndexIds) =>
        /\ data.predictedCount = Count(Flagged)
        /\ \A c \in DOMAIN index : Count(DetailedAt(index[c].id)) = 1
        /\ \A p \in Flagged : \E c \in DOMAIN index : AllCases[p].id = index[c].id
        /\ data.totalCount = Len(AllCases)
        /\ data.predictedCount <= data.totalCount

\* a consolidated record matched by both of its docket numbers and merged
\* once, next to a record no docket entry matches
C25_Witness ==
    /\ Merged
    /\ Len(index) = 2
    /\ SkippedKeys # {}
    /\ Unmatched # {}
    /\ data.predictedCount = 2
    /\ data.totalCount = 2

\* the fields a merged predicted case carries
MergedFields == {"id", "name", "docket", "status", "hasPrediction", "timeline"}

InList(e, list) == \E i \in DOMAIN list : list[i] = e

\* C27: a predicted case merged by getFullDocket keeps every field of its
\* index record, status included, and only gains hasPrediction = true and the
\* timeline of the matched docket entry; the entry's flags never change the
\* status, so a case whose index status is not "Decided" is listed as pending
C27_KeepsIndexFields ==
    (Merged /\ UniqueIndexIds) =>
        \A c \in DOMAIN index : \A p \in DetailedAt(index[c].id) :
            LET e == AllCases[p]
                r == index[c]
            IN /\ DOMAIN e = MergedFields
               /\ \A f \in DOMAIN r : e[f] = r[f]
               /\ e.hasPrediction
               /\ e.timeline = IF KeysOf(c) = {} THEN {}
                               ELSE docket[Least(KeysOf(c))].timeline
               /\ r.status # "Decided" =>
                    InList(e, pendingCases) /\ ~InList(e, decidedCases)

\* a predicted case awaiting its decision in the index, matched to a docket
\* entry flagged decided, is listed among the pending cases
C27_Witness ==
    /\ Merged
    /\ \E c \in DOMAIN index :
        /\ index[c].status = "Awaiting Decision"
        /\ KeysOf(c) # {}
        /\ docket[Least(KeysOf(c))].decided
        /\ \E i \in DOMAIN pendingCases :
            /\ pendingCases[i].hasPrediction
            /\ pendingCases[i].id = index[c].id
            /\ pendingCases[i].status = "Awaiting Decision"
            /\ <<"decided", <<"d">> \o docket[Least(KeysOf(c))].key>>
                    \in pendingCases[i].timeline

----------------------------------------------------------------------------
(* Further properties of sortCases *)

Digits == <<"0","1","2","3","4","5","6","7","8","9">>

DigitOf(c) == CHOOSE i \in DOMAIN Digits : Digits[i] = c

\* date a is more recent than date b, both written with the same number of digits
RECURSIVE MoreRecent(_, _)
MoreRecent(a, b) ==
    IF a = <<>> \/ b = <<>> THEN FALSE
    ELSE IF Head(a) # Head(b) THEN DigitOf(Head(a)) > DigitOf(Head(b))
    ELSE MoreRecent(Tail(a), Tail(b))

\* the date of the one timeline field of an entry handed to sortCases
DateOf(e) == (CHOOSE f \in e.timeline : TRUE)[2]

\* C21: as the doc comment of sortCases says, of two entries without
\* prediction and of the same status the one of the more recent timeline date
\* comes first in the output
C21_RecentFirst ==
    pc = "sorted" =>
        \A p, q \in DOMAIN sortOut :
            (/\ p < q
             /\ ~sortOut[p].hasPrediction /\ ~sortOut[q].hasPrediction
             /\ sortOut[p].status = sortOut[q].status) =>
                ~MoreRecent(DateOf(sortOut[q]), DateOf(sortOut[p]))

\* C28: sortCases returns a permutation of its input: every entry occurs in
\* the output as often as in the input, none is added or dropped; and the
\* input list is left as it was, in content and order
C28_Permutation ==
    /\ [](pc = "sorted" =>
            /\ Len(sortOut) = Len(sortIn)
            /\ \A p \in DOMAIN sortIn :
                Occurrences(sortOut, sortIn[p]) = Occurrences(sortIn, sortIn[p])
            /\ \A p \in DOMAIN sortOut :
                Occurrences(sortIn, sortOut[p]) = Occurrences(sortOut, sortOut[p]))
    /\ [][sortIn' = sortIn]_vars

\* C28 witness: sortCases has returned a list of three entries in another
\* order than that of its input
C28_Witness ==
    /\ pc = "sorted"
    /\ Len(sortIn) = 3
    /\ sortOut[1] = sortIn[3] /\ sortOut[2] = sortIn[1] /\ sortOut[3] = sortIn[2]

----------------------------------------------------------------------------
(* Further properties of DocketSection *)

\* C23: every non-empty sub-group has its header or its rows rendered: no case
\* that passes the filter sits in a collapsed sub-group whose header is not
\* shown
C23_NeverHidden ==
    Mounted =>
        \A i \in DOMAIN groups :
            showSubGroups \/ ~Collapsed(collapsedGroups, groups[i].status)

RECURSIVE GroupedTotal(_)
GroupedTotal(gs) == IF gs = <<>> THEN 0 ELSE Len(Head(gs).cases) + GroupedTotal(Tail(gs))

C30_Step ==
    /\ (searchQuery' # searchQuery \/ collapsedGroups' # collapsedGroups) =>
            expandedCardId' = expandedCardId
    /\ \A i \in DOMAIN sectionCases :
        LET id == sectionCases[i].id IN
        (expandedCardId' # expandedCardId /\ toggleCard(id)) =>
            IF expandedCardId = <<id>>
            THEN expandedCardId' = <<>>
            ELSE expandedCardId' = <<id>>

\* C30: at most one compact row is expanded; a toggle of the expanded row
\* collapses it, a toggle of another row expands that row and collapses the
\* previous one, and neither a query change nor a group toggle changes the id
\* recorded as expanded
C30_OneRowExpanded ==
    /\ [](Mounted => Cardinality({c \in RenderedRows : isExpanded(c)}) <= 1)
    /\ [][C30_Step]_vars

\* C30 witness: the second row is expanded after the first (so the first is
\* collapsed), a query is typed and a sub-group has been toggled
C30_Witness ==
    /\ Mounted
    /\ Len(sectionCases) = 2
    /\ expandedCardId = <<sectionCases[2].id>>
    /\ \E c \in RenderedRows : isExpanded(c)
    /\ \E c \in RenderedRows : ~isExpanded(c)
    /\ searchQuery # <<>>
    /\ collapsedGroups # {}

----------------------------------------------------------------------------
(* Properties of the case detail view *)

DetailShown == pc = "detail"

Offered(id) == \E t \in DOMAIN tabs(caseData) : tabs(caseData)[t] = id

\* C22: the "comparison" tab is offered exactly when the record has a
\* comparisonAnalysis block; in a view that starts on the "scenarios" tab,
\* after any sequence of tab clicks the active tab is an offered tab and
\* exactly one tab panel, the active tab's, is rendered
C22_Tabs ==
    DetailShown =>
        /\ Offered("comparison") <=> caseData.comparisonAnalysis # <<>>
        /\ Offered(activeTab)
        /\ Cardinality(TabPanels) = 1
        /\ TabPanels = {activeTab}

\* C22 witness: the comparison tab of a record with a comparisonAnalysis block
\* is active and its panel is the one rendered
C22_Witness ==
    /\ DetailShown
    /\ caseData.comparisonAnalysis # <<>>
    /\ activeTab = "comparison"
    /\ TabPanels = {"comparison"}

\* a step of the detail view seen from the expanded scenario
C29_Step ==
    /\ \A id \in TabIds : setActiveTab(id) => expandedScenario' = expandedScenario
    /\ \A id \in DetailIds : expandedScenario' # <<>> => ~CaseDetailPage(id)
    /\ \A id \in 1..MaxScenarios :
        handleScenarioClick(id) =>
            IF expandedScenario = <<id>>
            THEN expandedScenario' = <<>>
            ELSE expandedScenario' = <<id>>

\* C29: at most one scenario is expanded; a click on the expanded scenario
\* collapses it, a click on another scenario expands that one and collapses
\* the previous, no scenario is expanded initially, and a tab switch leaves
\* the expanded scenario unchanged
C29_OneScenarioExpanded ==
    /\ [](DetailShown => Cardinality(ExpandedScenarios) <= 1)
    /\ [](~DetailShown => expandedScenario = <<>>)
    /\ [][C29_Step]_vars

\* C29 witness: the second scenario is expanded and the view has been switched
\* to the justices tab
C29_Witness ==
    /\ DetailShown
    /\ activeTab = "justices"
    /\ expandedScenario = <<2>>
    /\ Cardinality(ExpandedScenarios) = 1

====
